---------------------------- MODULE Spec2Model ----------------------------
(***************************************************************************)
(* Model of etl.py: the batch job that turns song files and log files into *)
(* the tables songs, artist, users, time and song_plays.                   *)
(*                                                                         *)
(* A DataFrame is a bag (multiset) of rows; a row is a record of column    *)
(* values.  A column value is NULL (the empty tuple) or <<v>>.  Timestamps *)
(* are whole seconds since the epoch, rendered in the session time zone,   *)
(* which is taken to be UTC.  A long songplay_id p * 2^33 + i is written   *)
(* as the pair <<p, i>> of its upper 31 and lower 33 bits.                 *)
(***************************************************************************)
EXTENDS Integers, Sequences, FiniteSets, Bags, TLC

VARIABLES
    song_files,     \* rows of the files under input_data + "song-data/*/*/*/*.json"
    log_files,      \* rows of the files under input_data + "log-data/*/*/*.json"
    song_glob,      \* TRUE iff the song glob matches at least one file
    log_glob,       \* TRUE iff the log glob matches at least one file
    store,          \* output_data: destination -> what is materialized there
    pc,             \* position of the run inside main()
    written,        \* destinations this run has written, in order
    failed_at,      \* where and why this run raised, or NotFailed
    runs            \* number of runs of main() started so far

vars == <<song_files, log_files, song_glob, log_glob, store, pc, written,
          failed_at, runs>>

-----------------------------------------------------------------------------
(* Bounds of the model *)

MaxRows == 3
MaxRuns == 2
NumPartitions == 2

-----------------------------------------------------------------------------
(* Column values *)

NULL == <<>>

V(x) == <<x>>

Val(c) == c[1]

\* SQL equality used as a filter or join condition: NULL never matches
SqlEq(a, b) == a # NULL /\ b # NULL /\ a = b

-----------------------------------------------------------------------------
(* Bags of rows *)

\* DataFrame.select(columns) is BagOfAll(row function, rows): equal results of
\* different rows add up

Distinct(B) == SetToBag(BagToSet(B))

\* one element per row occurrence
Instances(B) == UNION {{<<r, k>> : k \in 1..B[r]} : r \in DOMAIN B}

-----------------------------------------------------------------------------
(* Calendar arithmetic of the timestamp functions (proleptic Gregorian) *)

DaysOf(t) == t \div 86400

SecondOfDay(t) == t % 86400

CivilFromDays(z) ==
    LET zz  == z + 719468
        era == zz \div 146097
        doe == zz - era * 146097
        yoe == (doe - doe \div 1460 + doe \div 36524 - doe \div 146096) \div 365
        doy == doe - (365 * yoe + yoe \div 4 - yoe \div 100)
        mp  == (5 * doy + 2) \div 153
        d   == doy - (153 * mp + 2) \div 5 + 1
        m   == IF mp < 10 THEN mp + 3 ELSE mp - 9
        y   == yoe + era * 400 + (IF m <= 2 THEN 1 ELSE 0)
    IN  [year |-> y, month |-> m, day |-> d]

DaysFromCivil(y0, m, d) ==
    LET y   == IF m <= 2 THEN y0 - 1 ELSE y0
        era == y \div 400
        yoe == y - era * 400
        doy == (153 * (IF m > 2 THEN m - 3 ELSE m + 9) + 2) \div 5 + d - 1
        doe == yoe * 365 + yoe \div 4 - yoe \div 100 + doy
    IN  era * 146097 + doe - 719468

\* 1 = Monday .. 7 = Sunday
IsoWeekday(t) == ((DaysOf(t) + 3) % 7) + 1

DayOfYear(t) ==
    LET c == CivilFromDays(DaysOf(t))
    IN  DaysOf(t) - DaysFromCivil(c.year, 1, 1) + 1

IsoWeeksInYear(y) ==
    LET p(n) == (n + n \div 4 - n \div 100 + n \div 400) % 7
    IN  IF p(y) = 4 \/ p(y - 1) = 3 THEN 53 ELSE 52

IsoWeek(t) ==
    LET y == CivilFromDays(DaysOf(t)).year
        w == (DayOfYear(t) - IsoWeekday(t) + 10) \div 7
    IN  IF w < 1 THEN IsoWeeksInYear(y - 1)
        ELSE IF w > IsoWeeksInYear(y) THEN 1
        ELSE w

-----------------------------------------------------------------------------
(* FloatType: the nearest IEEE-754 single (24-bit significand, ties to even) *)

Abs(n) == IF n < 0 THEN -n ELSE n

RECURSIVE Ulp(_, _)
Ulp(a, u) == IF a \div u < 16777216 THEN u ELSE Ulp(a, 2 * u)

Float32(n) ==
    LET a  == Abs(n)
        u  == Ulp(a, 1)
        q  == a \div u
        r  == a % u
        up == 2 * r > u \/ (2 * r = u /\ q % 2 = 1)
        m  == (IF up THEN q + 1 ELSE q) * u
    IN  IF n < 0 THEN -m ELSE m

-----------------------------------------------------------------------------
(* Timestamp functions.  A formatted string is the tuple of the values its  *)
(* pattern letters render, in the order of the pattern.                     *)

ts_format == <<"yyyy", "MM", "dd", "HH", "MM", "ss", "z">>

weekday_format == <<"u">>

SessionTimeZone == "UTC"

PatternValue(p, t) ==
    LET c == CivilFromDays(DaysOf(t))
        s == SecondOfDay(t)
    IN  CASE p = "yyyy" -> c.year
          [] p = "MM"   -> c.month
          [] p = "dd"   -> c.day
          [] p = "HH"   -> s \div 3600
          [] p = "mm"   -> (s % 3600) \div 60
          [] p = "ss"   -> s % 60
          [] p = "u"    -> IsoWeekday(t)
          [] p = "z"    -> SessionTimeZone

\* (df.ts / 1000).cast(TimestampType()), at the resolution date_format renders
EpochSeconds(ts) == IF ts = NULL THEN NULL ELSE V(Val(ts) \div 1000)

DateFormat(t, fmt) ==
    IF t = NULL THEN NULL
    ELSE V([i \in DOMAIN fmt |-> PatternValue(fmt[i], Val(t))])

\* a calendar field takes the value of the last pattern letter that sets it,
\* and its default when no letter of the pattern sets it
ParsedField(str, fmt, p, default) ==
    LET at == {i \in DOMAIN fmt : fmt[i] = p}
    IN  IF at = {} THEN default
        ELSE str[CHOOSE i \in at : \A j \in at : j <= i]

ToTimestamp(s, fmt) ==
    IF s = NULL THEN NULL
    ELSE LET str == Val(s)
             y   == ParsedField(str, fmt, "yyyy", 1970)
             mo  == ParsedField(str, fmt, "MM", 1)
             d   == ParsedField(str, fmt, "dd", 1)
             h   == ParsedField(str, fmt, "HH", 0)
             mi  == ParsedField(str, fmt, "mm", 0)
             sec == ParsedField(str, fmt, "ss", 0)
         IN  V(DaysFromCivil(y, mo, d) * 86400 + h * 3600 + mi * 60 + sec)

\* the new ts column of line 148
ConvertTs(ts) == ToTimestamp(DateFormat(EpochSeconds(ts), ts_format), ts_format)

Hour(c) == IF c = NULL THEN NULL ELSE V(SecondOfDay(Val(c)) \div 3600)

DayOfMonth(c) == IF c = NULL THEN NULL ELSE V(CivilFromDays(DaysOf(Val(c))).day)

WeekOfYear(c) == IF c = NULL THEN NULL ELSE V(IsoWeek(Val(c)))

Month(c) == IF c = NULL THEN NULL ELSE V(CivilFromDays(DaysOf(Val(c))).month)

Year(c) == IF c = NULL THEN NULL ELSE V(CivilFromDays(DaysOf(Val(c))).year)

-----------------------------------------------------------------------------
(* Input records.  The files hold rows shaped by the two schemas; the rows   *)
(* of a run are drawn from these small sets.                                 *)

SongRecord(artist_id, artist_location, artist_name, song_id, duration) ==
    [artist_id        |-> artist_id,
     artist_latitude  |-> NULL,
     artist_longitude |-> NULL,
     artist_location  |-> artist_location,
     artist_name      |-> artist_name,
     song_id          |-> song_id,
     title            |-> V("Waterloo"),
     duration         |-> duration,
     year             |-> V(0)]

SongRecords ==
    { SongRecord(V("AR1"), V("Stockholm"), V("Abba"), V("SO1"), V(200)),
      SongRecord(V("AR1"), NULL,           V("Abba"), V("SO2"), V(200)),
      SongRecord(V("AR2"), V("London"),    V("Abba"), V("SO3"), V(201)) }

LogRecord(page, artist, length, ts, level) ==
    [artist        |-> artist,
     auth          |-> V("Logged In"),
     firstName     |-> V("Ann"),
     gender        |-> V("F"),
     itemInSession |-> V(0),
     lastName      |-> V("Lee"),
     length        |-> length,
     level         |-> level,
     location      |-> V("Oslo"),
     method        |-> V("PUT"),
     page          |-> page,
     registration  |-> NULL,
     sessionId     |-> V(7),
     song          |-> V("Waterloo"),
     status        |-> V(200),
     ts            |-> ts,
     userAgent     |-> V("Mozilla"),
     userId        |-> V("u1")]

LogRecords ==
    { LogRecord(V("NextSong"), V("Abba"), V(200), V(0),          V("free")),
      LogRecord(V("NextSong"), V("Abba"), V(201), V(60000),      V("paid")),
      LogRecord(V("NextSong"), V("Abba"), V(201), V(-1000),      V("free")),
      LogRecord(V("Login"),    V("Abba"), V(200), V(1999999999), V("free")),
      LogRecord(NULL,          V("Abba"), V(200), V(10800000),   V("free")) }

\* the bags over S with at most n rows
RECURSIVE BagsOver(_, _)
BagsOver(S, n) ==
    IF n = 0 THEN {EmptyBag}
    ELSE LET smaller == BagsOver(S, n - 1)
         IN  smaller \cup {b (+) SetToBag({x}) : b \in smaller, x \in S}

-----------------------------------------------------------------------------
(* spark.read.json(path, schema=schema) *)

\* the song schema keeps every field at the type the files give it
SongSchemaRow(r) == r

\* FloatType columns of the log schema hold singles
LogSchemaRow(r) ==
    [r EXCEPT !.ts = IF r.ts = NULL THEN NULL ELSE V(Float32(Val(r.ts))),
              !.registration = IF r.registration = NULL THEN NULL
                               ELSE V(Float32(Val(r.registration)))]

ReadSongs(files) == BagOfAll(SongSchemaRow, files)

ReadLogs(files) == BagOfAll(LogSchemaRow, files)

-----------------------------------------------------------------------------
(* process_song_data *)

SongsRow(r) ==
    [song_id |-> r.song_id, artist_id |-> r.artist_id, year |-> r.year,
     duration |-> r.duration]

SongsTable(df) == BagOfAll(SongsRow, df)

ArtistRow(r) ==
    [artist_id |-> r.artist_id, name |-> r.artist_name,
     location |-> r.artist_location, latitude |-> r.artist_latitude,
     longitude |-> r.artist_longitude]

ArtistTable(df) == Distinct(BagOfAll(ArtistRow, df))

-----------------------------------------------------------------------------
(* process_log_data *)

IsNextSong(r) == SqlEq(r.page, V("NextSong"))

\* faulty variant: the filter of line 130 is not applied
Filtered_all(df) == df

Filtered(df) == [r \in {x \in DOMAIN df : IsNextSong(x)} |-> df[r]]

UsersRow(r) ==
    [user_id |-> r.userId, first_name |-> r.firstName,
     last_name |-> r.lastName, gender |-> r.gender, level |-> r.level]

UsersTable(df_filtered) == Distinct(BagOfAll(UsersRow, df_filtered))

WithTsRow(r) == [r EXCEPT !.ts = ConvertTs(r.ts)]

\* df after line 148
WithTs(df_filtered) == BagOfAll(WithTsRow, df_filtered)

TimeRow(r) ==
    [start_time |-> r.ts, hour |-> Hour(r.ts), day |-> DayOfMonth(r.ts),
     week |-> WeekOfYear(r.ts), month |-> Month(r.ts), year |-> Year(r.ts)]

WithWeekday(r) ==
    [start_time |-> r.start_time, hour |-> r.hour, day |-> r.day,
     week |-> r.week, month |-> r.month, year |-> r.year,
     weekday |-> DateFormat(r.start_time, weekday_format)]

\* faulty variant: line 157 without .distinct()
TimeSelect_noDistinct(df) == BagOfAll(TimeRow, df)

TimeSelect(df) == Distinct(BagOfAll(TimeRow, df))

TimeTable(df) == BagOfAll(WithWeekday, TimeSelect(df))

\* faulty variant: the join does not compare length with duration
JoinCondition_noLength(s, l) ==
    /\ SqlEq(l.artist, s.artist_name)
    /\ SqlEq(l.song, s.title)

JoinCondition(s, l) ==
    /\ SqlEq(l.artist, s.artist_name)
    /\ SqlEq(l.song, s.title)
    /\ SqlEq(l.length, s.duration)

\* song_df.join(df, condition): one row per matching pair of row occurrences,
\* holding the columns of the song row and those of the log row
JoinedRow(p) == [song |-> p[1], log |-> p[2]]

Join(song_df, df) ==
    LET pairs == {p \in (DOMAIN song_df) \X (DOMAIN df) : JoinCondition(p[1], p[2])}
    IN  BagOfAll(JoinedRow, [p \in pairs |-> song_df[p[1]] * df[p[2]]])

\* monotonically_increasing_id(): partition id in the upper 31 bits, the
\* position of the row in its partition in the lower 33 bits
\* faulty variant: the id is the position in the partition alone
MonotonicallyIncreasingId_noPartition(part, pos, i) ==
    <<0, Cardinality({j \in DOMAIN part : part[j] = part[i] /\ pos[j] < pos[i]})>>

MonotonicallyIncreasingId(part, pos, i) ==
    <<part[i], Cardinality({j \in DOMAIN part : part[j] = part[i] /\ pos[j] < pos[i]})>>

\* faulty variant: col('year') resolves to the year column of the song row
SongPlaysRow_songYear(j) ==
    [songplay_id |-> j.songplay_id,
     start_time  |-> j.log.ts,
     user_id     |-> j.log.userId,
     level       |-> j.log.level,
     song_id     |-> j.song.song_id,
     artist_id   |-> j.song.artist_id,
     session_id  |-> j.log.sessionId,
     location    |-> j.log.location,
     user_agent  |-> j.log.userAgent,
     month       |-> Month(j.log.ts),
     year        |-> j.song.year]

\* the columns line 194 selects from a joined row that carries songplay_id
SongPlaysRow(j) ==
    [songplay_id |-> j.songplay_id,
     start_time  |-> j.log.ts,
     user_id     |-> j.log.userId,
     level       |-> j.log.level,
     song_id     |-> j.song.song_id,
     artist_id   |-> j.song.artist_id,
     session_id  |-> j.log.sessionId,
     location    |-> j.log.location,
     user_agent  |-> j.log.userAgent,
     month       |-> Month(j.log.ts),
     year        |-> Year(j.log.ts)]

\* the engine decides where a joined row lands: pos is its position in the
\* dataframe, read partition after partition, and part the partition it is in
Layouts(joined) ==
    LET I == Instances(joined)
        n == Cardinality(I)
        orders == {f \in [I -> 1..n] : \A i, j \in I : i # j => f[i] # f[j]}
        splits == {g \in [1..n -> 0..(NumPartitions - 1)] :
                      \A a, b \in 1..n : a < b => g[a] <= g[b]}
    IN  {[part |-> [i \in I |-> g[f[i]]], pos |-> f] : f \in orders, g \in splits}

\* withColumn('songplay_id', monotonically_increasing_id()) under layout l
WithSongplayId(j, id) ==
    [song |-> j.song, log |-> j.log, songplay_id |-> V(id)]

\* the tables song_plays can come out as.  The other columns of a row do not
\* depend on its id: they are evaluated once per joined row.
SongPlaysOutputs(song_df, df) ==
    LET joined == Join(song_df, df)
        I      == Instances(joined)
        cols   == [j \in DOMAIN joined |-> SongPlaysRow(WithSongplayId(j, 0))]
        Row(l, i) ==
            [cols[i[1]] EXCEPT !.songplay_id =
                WithSongplayId(i[1], MonotonicallyIncreasingId(l.part, l.pos, i)).songplay_id]
    IN  {BagOfAll(LAMBDA i : Row(l, i), SetToBag(I)) : l \in Layouts(joined)}

-----------------------------------------------------------------------------
(* DataFrameWriter.parquet(path, mode="overwrite") and the output location *)

Tables == <<"songs", "artist", "users", "time", "song_plays">>

TableSet == {Tables[i] : i \in DOMAIN Tables}

Absent == [status |-> "absent", rows |-> EmptyBag, partition_by |-> <<>>]

\* faulty variant: mode="append"
WriteParquet_append(old, rows, partition_by) ==
    [status |-> "complete", rows |-> old.rows (+) rows, partition_by |-> partition_by]

\* what the destination holds after the write: the prior content is replaced
WriteParquet(old, rows, partition_by) ==
    [status |-> "complete", rows |-> rows, partition_by |-> partition_by]

\* what the destination holds when the write raises is not defined: the prior
\* content, nothing, or any part of the new rows.  No step reads it.
Undefined == [status |-> "undefined", rows |-> EmptyBag, partition_by |-> <<>>]

AbortedWrite(old, rows, partition_by) == Undefined

\* the dataframes of the run; they are lazy, every write evaluates them
\* against the files
song_df == ReadSongs(song_files)

log_df == ReadLogs(log_files)

df_filtered == Filtered(log_df)

df == WithTs(df_filtered)

-----------------------------------------------------------------------------
(* main *)

SongStage == {"read_song_data", "write_songs", "write_artist"}

NotFailed == [at |-> "none", error |-> "none"]

\* faulty variant: main catches what process_song_data raises and goes on
AfterFailure_continue(p) == IF p \in SongStage THEN "read_log_data" ELSE "failed"

\* an exception is not caught anywhere: it ends main
AfterFailure(p) == "failed"

Init ==
    /\ \E sf \in BagsOver(SongRecords, MaxRows), lf \in BagsOver(LogRecords, MaxRows) :
          /\ BagCardinality(sf) + BagCardinality(lf) <= MaxRows
          /\ song_files = sf
          /\ log_files = lf
    /\ song_glob \in {g \in BOOLEAN : song_files # EmptyBag => g}
    /\ log_glob \in {g \in BOOLEAN : log_files # EmptyBag => g}
    /\ store = [t \in TableSet |-> Absent]
    /\ pc = "main"
    /\ written = <<>>
    /\ failed_at = NotFailed
    /\ runs = 1

Inputs == <<song_files, log_files, song_glob, log_glob>>

Goto(p) ==
    /\ pc' = p
    /\ UNCHANGED <<Inputs, store, written, failed_at, runs>>

Raise(error) ==
    /\ pc' = AfterFailure(pc)
    /\ failed_at' = [at |-> pc, error |-> error]
    /\ UNCHANGED <<Inputs, written, runs>>

\* a write that completes
Write(t, rows, partition_by, next) ==
    /\ store' = [store EXCEPT ![t] = WriteParquet(store[t], rows, partition_by)]
    /\ written' = Append(written, t)
    /\ pc' = next
    /\ UNCHANGED <<Inputs, failed_at, runs>>

\* a write that raises
WriteRaises(t, rows, partition_by) ==
    /\ store' = [store EXCEPT ![t] = AbortedWrite(store[t], rows, partition_by)]
    /\ Raise("engine failure")

CreateSparkSession ==
    /\ pc = "main"
    /\ Goto("read_song_data")

\* line 61: the path is resolved when the dataframe is defined
ReadSongData ==
    /\ pc = "read_song_data"
    /\ song_glob
    /\ Goto("write_songs")

WriteSongsTable ==
    /\ pc = "write_songs"
    /\ Write("songs", SongsTable(song_df), <<"year", "artist_id">>, "write_artist")

WriteSongsTableRaises ==
    /\ pc = "write_songs"
    /\ WriteRaises("songs", SongsTable(song_df), <<"year", "artist_id">>)

WriteArtistTable ==
    /\ pc = "write_artist"
    /\ Write("artist", ArtistTable(song_df), <<>>, "read_log_data")

WriteArtistTableRaises ==
    /\ pc = "write_artist"
    /\ WriteRaises("artist", ArtistTable(song_df), <<>>)

\* line 126
ReadLogData ==
    /\ pc = "read_log_data"
    /\ log_glob
    /\ Goto("write_users")

WriteUsersTable ==
    /\ pc = "write_users"
    /\ Write("users", UsersTable(df_filtered), <<>>, "write_time")

WriteUsersTableRaises ==
    /\ pc = "write_users"
    /\ WriteRaises("users", UsersTable(df_filtered), <<>>)

WriteTimeTable ==
    /\ pc = "write_time"
    /\ Write("time", TimeTable(df), <<"year", "month">>, "read_song_data_join")

WriteTimeTableRaises ==
    /\ pc = "write_time"
    /\ WriteRaises("time", TimeTable(df), <<"year", "month">>)

\* line 180
ReadSongDataForJoin ==
    /\ pc = "read_song_data_join"
    /\ song_glob
    /\ Goto("write_song_plays")

WriteSongPlays ==
    /\ pc = "write_song_plays"
    /\ \E rows \in SongPlaysOutputs(song_df, df) :
          Write("song_plays", rows, <<"year", "month">>, "done")

WriteSongPlaysRaises ==
    /\ pc = "write_song_plays"
    /\ WriteRaises("song_plays", EmptyBag, <<"year", "month">>)

\* the path of a read matches no file: spark.read.json raises
\* AnalysisException ("Path does not exist")
GlobOf(p) == IF p = "read_log_data" THEN log_glob ELSE song_glob

ReadRaisesNoPath ==
    /\ pc \in {"read_song_data", "read_log_data", "read_song_data_join"}
    /\ ~GlobOf(pc)
    /\ UNCHANGED store
    /\ Raise("path does not exist")

\* an engine or storage failure in a step that writes nothing
StepRaises ==
    /\ pc \in {"main", "read_song_data", "read_log_data", "read_song_data_join"}
    /\ UNCHANGED store
    /\ Raise("engine failure")

\* the job is run again on the same inputs
RunAgain ==
    /\ pc \in {"done", "failed"}
    /\ runs < MaxRuns
    /\ runs' = runs + 1
    /\ pc' = "main"
    /\ written' = <<>>
    /\ failed_at' = NotFailed
    /\ UNCHANGED <<Inputs, store>>

Next ==
    \/ CreateSparkSession
    \/ ReadSongData
    \/ WriteSongsTable
    \/ WriteSongsTableRaises
    \/ WriteArtistTable
    \/ WriteArtistTableRaises
    \/ ReadLogData
    \/ WriteUsersTable
    \/ WriteUsersTableRaises
    \/ WriteTimeTable
    \/ WriteTimeTableRaises
    \/ ReadSongDataForJoin
    \/ WriteSongPlays
    \/ WriteSongPlaysRaises
    \/ ReadRaisesNoPath
    \/ StepRaises
    \/ RunAgain

Spec == Init /\ [][Next]_vars

-----------------------------------------------------------------------------
(* What the claims speak about *)

Rows(t) == store[t].rows

Complete(t) == store[t].status = "complete"

NoDuplicateRow(B) == \A r \in DOMAIN B : B[r] = 1

WithoutId(B) == BagOfAll(LAMBDA r : [r EXCEPT !.songplay_id = NULL], B)

\* the log rows of the files whose page is "NextSong"
NextSongRows(files) == [r \in {x \in DOMAIN files : x.page = V("NextSong")} |-> files[r]]

\* a log row and a song row that the join of line 184 is to pair
Matches(l, s) ==
    /\ l.page = V("NextSong")
    /\ l.artist # NULL /\ l.artist = s.artist_name
    /\ l.song # NULL /\ l.song = s.title
    /\ l.length # NULL /\ l.length = s.duration

\* song_plays without its ids, as a run on the given files produces it
SongPlaysOf(songs, logs) ==
    WithoutId(BagOfAll(LAMBDA j : SongPlaysRow(WithSongplayId(j, <<0, 0>>)),
                       Join(ReadSongs(songs), WithTs(Filtered(ReadLogs(logs))))))

TimeOf(logs) == TimeTable(WithTs(Filtered(ReadLogs(logs))))

\* what each destination holds after a run that completes, ids aside
Expected(t) ==
    CASE t = "songs"      -> [rows |-> SongsTable(song_df), partition_by |-> <<"year", "artist_id">>]
      [] t = "artist"     -> [rows |-> ArtistTable(song_df), partition_by |-> <<>>]
      [] t = "users"      -> [rows |-> UsersTable(df_filtered), partition_by |-> <<>>]
      [] t = "time"       -> [rows |-> TimeTable(df), partition_by |-> <<"year", "month">>]
      [] t = "song_plays" -> [rows |-> SongPlaysOf(song_files, log_files),
                              partition_by |-> <<"year", "month">>]

HoldsExpected(t) ==
    /\ Complete(t)
    /\ store[t].partition_by = Expected(t).partition_by
    /\ (IF t = "song_plays" THEN WithoutId(Rows(t)) ELSE Rows(t)) = Expected(t).rows

-----------------------------------------------------------------------------
(* C1: after a run that completes, no dimension table (songs, artist, users, *)
(* time) holds two rows equal on all columns.  The songs table is selected   *)
(* without distinct(): two equal song rows in the files give two equal rows. *)

C1_DimensionRowsDistinct ==
    pc = "done" =>
        \A t \in {"songs", "artist", "users", "time"} : NoDuplicateRow(Rows(t))

-----------------------------------------------------------------------------
(* C2: every row of song_plays comes from a NextSong log row and a song row  *)
(* that agree on artist, title and duration, and carries that song row's     *)
(* song_id and artist_id; there are exactly as many fact rows as matching    *)
(* pairs, so a log row without a matching song row contributes none.         *)

C2_SongPlaysFromMatchingPairs ==
    Complete("song_plays") =>
        /\ \A f \in DOMAIN Rows("song_plays") :
              \E l \in DOMAIN log_files, s \in DOMAIN song_files :
                  /\ Matches(l, s)
                  /\ f.song_id = s.song_id /\ f.artist_id = s.artist_id
                  /\ f.user_id = l.userId /\ f.level = l.level
                  /\ f.session_id = l.sessionId
        /\ BagCardinality(Rows("song_plays")) =
              Cardinality({p \in Instances(log_files) \X Instances(song_files) :
                              Matches(p[1][1], p[2][1])})

C2_Witness ==
    /\ Complete("song_plays")
    /\ Rows("song_plays") # EmptyBag
    /\ \E l \in DOMAIN log_files :
          /\ l.page = V("NextSong")
          /\ \A s \in DOMAIN song_files : ~Matches(l, s)

-----------------------------------------------------------------------------
(* C3: for every row of song_plays the time table has a row with the same    *)
(* start_time, and every such time row has the fact row's month and year.    *)

C3_FactMonthYearAgreeWithTime ==
    (Complete("song_plays") /\ Complete("time")) =>
        \A f \in DOMAIN Rows("song_plays") :
            /\ \E t \in DOMAIN Rows("time") : t.start_time = f.start_time
            /\ \A t \in DOMAIN Rows("time") :
                  t.start_time = f.start_time =>
                      t.month = f.month /\ t.year = f.year

C3_Witness ==
    /\ Complete("song_plays") /\ Complete("time")
    /\ \E f, g \in DOMAIN Rows("song_plays") : f.year # g.year

-----------------------------------------------------------------------------
(* C4: for every NextSong log row the time table has a row whose start_time  *)
(* is the instant ts/1000 seconds after the epoch, with the calendar fields  *)
(* of that instant.  The pattern "yyyy-MM-dd HH:MM:ss z" renders the month   *)
(* where the minutes belong, so the minutes are lost: ts = 60000 gives       *)
(* 00:00:00, not 00:01:00.                                                   *)

C4_StartTimeIsTsOver1000 ==
    Complete("time") =>
        \A l \in DOMAIN NextSongRows(log_files) :
            l.ts # NULL =>
                LET t == Val(l.ts) \div 1000
                    c == CivilFromDays(DaysOf(t))
                IN  \E r \in DOMAIN Rows("time") :
                        /\ r.start_time = V(t)
                        /\ r.hour = V(SecondOfDay(t) \div 3600)
                        /\ r.day = V(c.day)
                        /\ r.month = V(c.month)
                        /\ r.year = V(c.year)
                        /\ r.week = V(IsoWeek(t))
                        /\ r.weekday = V(<<IsoWeekday(t)>>)

-----------------------------------------------------------------------------
(* C5: only the log rows whose page is "NextSong" contribute to time and to  *)
(* song_plays: both tables are what a run produces from the files with every *)
(* other row (another page, or no page) removed, songplay_id aside.          *)

C5_OnlyNextSongContributes ==
    /\ Complete("time") => Rows("time") = TimeOf(NextSongRows(log_files))
    /\ Complete("song_plays") =>
          WithoutId(Rows("song_plays")) =
              SongPlaysOf(song_files, NextSongRows(log_files))

C5_Witness ==
    /\ Complete("time") /\ Complete("song_plays")
    /\ Rows("time") # EmptyBag
    /\ \E l \in DOMAIN log_files, s \in DOMAIN song_files :
          /\ l.page # V("NextSong")
          /\ l.artist = s.artist_name /\ l.song = s.title /\ l.length = s.duration

-----------------------------------------------------------------------------
(* C6: no two rows of song_plays have the same songplay_id.                  *)

C6_SongplayIdUnique ==
    Complete("song_plays") =>
        /\ NoDuplicateRow(Rows("song_plays"))
        /\ \A f, g \in DOMAIN Rows("song_plays") :
              f.songplay_id = g.songplay_id => f = g

\* one log row joined to two song rows, the two fact rows in two partitions
C6_Witness ==
    /\ Complete("song_plays")
    /\ \E f, g \in DOMAIN Rows("song_plays") :
          /\ f.song_id # g.song_id
          /\ f.start_time = g.start_time
          /\ Val(f.songplay_id)[1] # Val(g.songplay_id)[1]

-----------------------------------------------------------------------------
(* C7: after every run that completes, the first or a later one, each of the *)
(* five destinations holds exactly the table the run computes from the       *)
(* inputs (songplay_id aside), whatever it held before: a second run on the  *)
(* same inputs leaves what the first left, and nothing of the first beside.  *)

C7_RunLeavesExactlyItsTables ==
    pc = "done" => \A t \in TableSet : HoldsExpected(t)

C7_Witness ==
    /\ pc = "done"
    /\ runs >= 2
    /\ Rows("songs") # EmptyBag
    /\ Rows("song_plays") # EmptyBag

-----------------------------------------------------------------------------
(* C8: a run writes the tables in the order songs, artist, users, time,      *)
(* song_plays; once a step raises the run is over: it writes no further      *)
(* table, the tables it has written hold their complete output, and every    *)
(* step of a run changes no destination but the next one in the order.       *)

C8_StateInv ==
    /\ \A i \in DOMAIN written : i <= Len(Tables) /\ written[i] = Tables[i]
    /\ failed_at # NotFailed => pc = "failed"
    /\ pc = "failed" =>
          /\ failed_at # NotFailed
          /\ \A i \in DOMAIN written : HoldsExpected(written[i])

C8_Step ==
    /\ \A t \in TableSet :
          store'[t] # store[t] =>
              Len(written) < Len(Tables) /\ t = Tables[Len(written) + 1]
    /\ pc = "failed" => store' = store

C8_FailStop == []C8_StateInv /\ [][C8_Step]_vars

\* the run raised after songs and artist; users still holds an earlier run's table
C8_Witness ==
    /\ pc = "failed"
    /\ written = <<"songs", "artist">>
    /\ Complete("users")
    /\ Rows("users") # EmptyBag

-----------------------------------------------------------------------------
(* C9: when the song glob or the log glob matches no file, the run does not  *)
(* fail on that and writes all five tables.  spark.read.json raises when its *)
(* path matches no file, and nothing catches it.                             *)

C9_EmptyGlobRunCompletes ==
    (~song_glob \/ ~log_glob) =>
        /\ failed_at.error # "path does not exist"
        /\ pc = "done" => \A t \in TableSet : Complete(t)

-----------------------------------------------------------------------------
(* C10: the time table has exactly one row per distinct start_time of the    *)
(* NextSong log rows: no two rows share a start_time, no row occurs twice,   *)
(* and every start_time has its row.                                         *)

C10_OneTimeRowPerStartTime ==
    Complete("time") =>
        /\ NoDuplicateRow(Rows("time"))
        /\ \A r, q \in DOMAIN Rows("time") : r.start_time = q.start_time => r = q
        /\ {r.start_time : r \in DOMAIN Rows("time")} =
              {ConvertTs(LogSchemaRow(l).ts) : l \in DOMAIN NextSongRows(log_files)}

\* two NextSong rows with different ts and the same start_time
C10_Witness ==
    /\ Complete("time")
    /\ \E l, m \in DOMAIN NextSongRows(log_files) :
          /\ l.ts # m.ts
          /\ ConvertTs(LogSchemaRow(l).ts) = ConvertTs(LogSchemaRow(m).ts)

=============================================================================
